---- MODULE Spec2Model ----
(***************************************************************************)
(* A model of the baseline JPEG decoder of src/jpeg/decoder.rs: the marker *)
(* driven segment parser (read_metadata and the read_* segment handlers),  *)
(* the public ImageDecoder calls, the MCU assembler (decode_mcu_row,       *)
(* decode_mcu, read_restart, find_restart_marker, reset) and the AC loop   *)
(* of decode_block.                                                        *)
(*                                                                         *)
(* The byte stream `r` is not a variable: every read of the code is an     *)
(* input of the step that performs it, drawn from a small set.  A segment  *)
(* is given by its decoded fields; a segment that ends early (end of       *)
(* stream inside it) is given by the fields that could still be read.      *)
(* A Rust panic (index out of bounds, unwrap of None, division by zero)    *)
(* is the result "Panic" and ends the run of the decoder.                  *)
(***************************************************************************)
EXTENDS Integers, Sequences, FiniteSets, TLC

VARIABLES
    dec,      \* the JPEGDecoder struct
    pc,       \* position inside the public call in progress: "idle", "meta" (the loop
              \* of read_metadata), "mcu" (decode_mcu before a block), "mcuend" (decode_mcu
              \* after its blocks), "crashed"
    call,     \* the public call in progress, "none" between calls
    left,     \* the read_scanline calls the public call still makes, this one included
    x0,       \* decode_mcu_row: the loop variable of range_step
    ci,       \* decode_mcu: index into scan_components (tmp)
    bi,       \* decode_mcu: blocks of the current component decoded so far
    blk,      \* decode_mcu: the local i (block slot of the MCU buffer)
    c,        \* decode_mcu: the local clone of the current component
    result,   \* what the last public call returned, "none" while one is in progress
    fails,    \* the public calls that returned an error so far
    rst,      \* history: the marker find_restart_marker returned in the last step, 0 if none
    rstlog,   \* history: the restart markers verified so far
    k,        \* decode_block: the zig-zag index of the AC loop
    zidx,     \* decode_block: the index the last coefficient was placed with, 0 if none
    bres,     \* decode_block: "run" inside the AC loop, else how the loop ended
    coef,     \* decode_block: the position and value of the last store into tmp
    ext,      \* extend: the arguments v, t and the value returned
    skip,     \* read_metadata, APPn/COM arm: the declared length, the bytes left in the
              \* stream after it, the payload bytes consumed and how the arm ended
    up,       \* upsample_mcu: the loop variables and the stores of the last iteration
    tr        \* idct: the DC coefficient, the stage reached, tmp and samples

\* the decoder and its public calls
dvars == <<dec, pc, call, left, x0, ci, bi, blk, c, result, fails, rst, rstlog>>

\* one APPn/COM segment, one call of upsample_mcu, one call of idct
avars == <<skip, up, tr>>

\* one run of the AC loop of decode_block, one call of extend, and the calls above
bvars == <<k, zidx, bres, coef, ext, avars>>

vars == <<dvars, bvars>>

---------------------------------------------------------------------------
(* Markers *)
SOF0 == 192
SOF2 == 194
DHT == 196
RST0 == 208
RST7 == 215
SOI == 216
EOI == 217
SOS == 218
DQT == 219
DNL == 220
DRI == 221
APP0 == 224
APPF == 239
COM == 254
TEM == 1

(* Bounds of the inputs *)
MaxBlocks == 2
MaxInterval == 2
MaxDc == 2
MaxFails == 1

Max(a, b) == IF a >= b THEN a ELSE b

CeilDiv(a, b) == (a + b - 1) \div b

\* the order of the variants of enum JPEGState
StateRank(s) ==
    CASE s = "Start" -> 0
      [] s = "HaveSOI" -> 1
      [] s = "HaveFirstFrame" -> 2
      [] s = "HaveFirstScan" -> 3
      [] s = "End" -> 4

\* HuffDecoder::new(): empty accumulator, no cached marker
HuffDecoderNew == [bits |-> 0, num_bits |-> 0, end |-> FALSE, marker |-> 0]

NoComponents == [i \in {} |-> 0]

\* JPEGDecoder::new
New ==
    [ qtables |-> [i \in 0..3 |-> "zero"],
      dctables |-> [i \in 0..1 |-> "default"],
      actables |-> [i \in 0..1 |-> "default"],
      h |-> HuffDecoderNew,
      height |-> 0,
      width |-> 0,
      num_components |-> 0,
      scan_components |-> <<>>,
      components |-> NoComponents,
      mcu_row_len |-> 0,
      mcu_len |-> 0,
      hmax |-> 0,
      vmax |-> 0,
      interval |-> 0,
      mcucount |-> 0,
      expected_rst |-> RST0,
      row_count |-> 0,
      decoded_rows |-> 0,
      padded_width |-> 0,
      state |-> "Start" ]

Out(d, res) == [d |-> d, res |-> res]

---------------------------------------------------------------------------
(* Segment handlers *)

\* HashMap::insert
Insert(m, id, comp) ==
    [i \in (DOMAIN m) \cup {id} |-> IF i = id THEN comp ELSE m[i]]

\* the Component literal of read_frame_components, from the three bytes read
NewComponent(id, hv, tq) ==
    [ id |-> id, h |-> hv \div 16, v |-> hv % 16, tq |-> tq,
      dc_table |-> 0, ac_table |-> 0, dc_pred |-> 0 ]

\* the first loop of read_frame_components over the n entries that could be read
RECURSIVE InsertComponents(_, _, _)
InsertComponents(m, comps, n) ==
    IF n = 0 THEN m
    ELSE LET e == comps[n]
         IN Insert(InsertComponents(m, comps, n - 1), e.id,
                   NewComponent(e.id, e.hv, e.tq))

\* blocks_per_mcu += (hv >> 4) * (hv & 0x0F), over the entries read
RECURSIVE SumBlocks(_, _)
SumBlocks(comps, n) ==
    IF n = 0 THEN 0
    ELSE SumBlocks(comps, n - 1) + (comps[n].hv \div 16) * (comps[n].hv % 16)

\* the fold of read_frame_components over every component of the map
RECURSIVE FoldMax(_, _, _)
FoldMax(m, ids, field) ==
    IF ids = {} THEN 0
    ELSE LET i == CHOOSE j \in ids : TRUE
         IN Max(IF field = "h" THEN m[i].h ELSE m[i].v,
                FoldMax(m, ids \ {i}, field))

\* read_frame_components(n); comps are the entries the stream still holds
ReadFrameComponents(d, n, comps) ==
    IF Len(comps) < n
    THEN Out([d EXCEPT !.components = InsertComponents(d.components, comps, Len(comps))],
             "IoError")
    ELSE
      LET ins == InsertComponents(d.components, comps, n)
          hmax == FoldMax(ins, DOMAIN ins, "h")
          vmax == FoldMax(ins, DOMAIN ins, "v")
          one == [i \in DOMAIN ins |-> [ins[i] EXCEPT !.h = 1, !.v = 1]]
          blocks_per_mcu == IF n = 1 THEN 1 ELSE SumBlocks(comps, n)
          mcu_len == blocks_per_mcu * 64
          \* (width / (8 * hmax)).ceil(); with hmax = 0 the product below is 0 whatever it is
          mcus_per_row == IF hmax = 0 THEN 0 ELSE CeilDiv(d.width, 8 * hmax)
      IN Out([d EXCEPT !.components = IF n = 1 THEN one ELSE ins,
                       !.hmax = IF n = 1 THEN 1 ELSE hmax,
                       !.vmax = IF n = 1 THEN 1 ELSE vmax,
                       !.mcu_len = mcu_len,
                       !.mcu_row_len = (hmax * vmax) * mcu_len * mcus_per_row],
             "Ok")

\* read_frame_header reporting zero dimensions as a format error
ReadFrameHeaderFormatError(d, f) ==
    IF f.precision # 8 THEN Out(d, "UnsupportedError")
    ELSE
      LET d1 == [d EXCEPT !.height = f.height, !.width = f.width,
                          !.num_components = f.n]
      IN IF f.height = 0 \/ f.width = 0 THEN Out(d1, "FormatError")
         ELSE IF f.n # 1 /\ f.n # 3 THEN Out(d1, "UnsupportedError")
         ELSE ReadFrameComponents(
                  [d1 EXCEPT !.padded_width = 8 * ((f.width + 7) \div 8)],
                  f.n, f.comps)

\* read_frame_header
ReadFrameHeader(d, f) ==
    IF f.precision # 8 THEN Out(d, "UnsupportedError")
    ELSE
      LET d1 == [d EXCEPT !.height = f.height, !.width = f.width,
                          !.num_components = f.n]
      IN IF f.height = 0 \/ f.width = 0 THEN Out(d1, "DimensionError")
         ELSE IF f.n # 1 /\ f.n # 3 THEN Out(d1, "UnsupportedError")
         ELSE ReadFrameComponents(
                  [d1 EXCEPT !.padded_width = 8 * ((f.width + 7) \div 8)],
                  f.n, f.comps)

\* the loop of read_scan_header from entry n on
RECURSIVE ScanEntries(_, _, _)
ScanEntries(d, s, n) ==
    IF n > s.n THEN
        IF s.complete THEN Out(d, "Ok") ELSE Out(d, "IoError")
    ELSE IF n > Len(s.comps) THEN Out(d, "IoError")
    ELSE LET e == s.comps[n]
         IN IF e.id \notin DOMAIN d.components THEN Out(d, "Panic")
            ELSE ScanEntries(
                   [d EXCEPT !.components[e.id].dc_table = e.tables \div 16,
                             !.components[e.id].ac_table = e.tables % 16,
                             !.scan_components = Append(@, e.id)],
                   s, n + 1)

\* read_scan_header
ReadScanHeader(d, s) ==
    ScanEntries([d EXCEPT !.scan_components = <<>>], s, 1)

\* the loop of read_huffman_tables from table n of the segment on
RECURSIVE ReadHuffmanTablesFrom(_, _, _)
ReadHuffmanTablesFrom(d, tabs, n) ==
    IF n > Len(tabs) THEN Out(d, "Ok")
    ELSE LET t == tabs[n]
         IN IF t.tc # 0 /\ t.tc # 1 THEN Out(d, "UnsupportedError")
            ELSE IF t.th > 1 THEN Out(d, "Panic")
            ELSE ReadHuffmanTablesFrom(
                   IF t.tc = 0 THEN [d EXCEPT !.dctables[t.th] = "derived"]
                               ELSE [d EXCEPT !.actables[t.th] = "derived"],
                   tabs, n + 1)

\* read_huffman_tables
ReadHuffmanTables(d, tabs) == ReadHuffmanTablesFrom(d, tabs, 1)

\* the loop of read_quantization_tables from table n of the segment on
RECURSIVE ReadQuantizationTablesFrom(_, _, _)
ReadQuantizationTablesFrom(d, tabs, n) ==
    IF n > Len(tabs) THEN Out(d, "Ok")
    ELSE LET t == tabs[n]
         IN IF t.pq # 0 \/ t.tq > 3 THEN Out(d, "FormatError")
            ELSE ReadQuantizationTablesFrom(
                   [d EXCEPT !.qtables[t.tq] = "loaded"], tabs, n + 1)

\* read_quantization_tables
ReadQuantizationTables(d, tabs) == ReadQuantizationTablesFrom(d, tabs, 1)

\* read_restart_interval
ReadRestartInterval(d, v) == Out([d EXCEPT !.interval = v], "Ok")

---------------------------------------------------------------------------
(* Restart handling and the entropy decoder's interface *)

RECURSIVE Pow2(_)
Pow2(n) == IF n = 0 THEN 1 ELSE 2 * Pow2(n - 1)

\* extend without the `+ 1`
ExtendNoOffset(v, t) ==
    LET vt == IF t >= 1 /\ t - 1 < 31 THEN Pow2(t - 1) ELSE 0
    IN IF v < vt THEN v + (0 - Pow2(t)) ELSE v

\* extend (Figure F.12): shift = t.wrapping_sub(1) is below 31 only for t in 1..31
Extend(v, t) ==
    LET vt == IF t >= 1 /\ t - 1 < 31 THEN Pow2(t - 1) ELSE 0
    IN IF v < vt THEN v + (0 - Pow2(t)) + 1 ELSE v

\* reset that clears the HuffDecoder and leaves the predictors
ResetKeepsPredictors(d) ==
    [d EXCEPT !.h = [bits |-> 0, num_bits |-> 0, end |-> FALSE, marker |-> 0]]

\* reset
Reset(d) ==
    [d EXCEPT !.h = [bits |-> 0, num_bits |-> 0, end |-> FALSE, marker |-> 0],
              !.components = [i \in DOMAIN d.components |->
                                 [d.components[i] EXCEPT !.dc_pred = 0]]]

\* expected_rst += 1 without the wrap
NextRstNoWrap(e) == e + 1

\* expected_rst += 1, wrapping RST7 to RST0
NextRst(e) == IF e + 1 > RST7 THEN RST0 ELSE e + 1

\* find_restart_marker: the cached marker if there is one, else the next RSTn of the
\* stream; m is what the scan of the stream meets first: an RSTn, EOI, or 0 for its end
FindRestartMarker(d, m) ==
    IF d.h.marker # 0
    THEN [d |-> [d EXCEPT !.h.marker = 0], res |-> "Ok", m |-> d.h.marker]
    ELSE IF m = 0 THEN [d |-> d, res |-> "IoError", m |-> 0]
    ELSE IF m = EOI THEN [d |-> d, res |-> "FormatError", m |-> 0]
    ELSE [d |-> d, res |-> "Ok", m |-> m]

\* the condition of read_restart without `self.mcucount < w * h`
RestartDueEveryInterval(d) ==
    /\ d.interval # 0
    /\ d.mcucount % d.interval = 0

\* whether read_restart looks for a marker (w and h need hmax, vmax # 0)
RestartDue(d) ==
    LET w == (d.width + 7) \div (d.hmax * 8)
        h == (d.height + 7) \div (d.vmax * 8)
    IN /\ d.interval # 0
       /\ d.mcucount % d.interval = 0
       /\ d.mcucount < w * h

\* read_restart
ReadRestart(d, m) ==
    IF d.hmax = 0 \/ d.vmax = 0 THEN [d |-> d, res |-> "Panic", m |-> 0]
    ELSE IF ~RestartDue(d) THEN [d |-> d, res |-> "Ok", m |-> 0]
    ELSE LET f == FindRestartMarker(d, m)
         IN IF f.res # "Ok" THEN f
            ELSE IF f.m = f.d.expected_rst
            THEN [d |-> [Reset(f.d) EXCEPT !.expected_rst = NextRst(f.d.expected_rst)],
                  res |-> "Ok", m |-> f.m]
            ELSE [d |-> f.d, res |-> "FormatError", m |-> f.m]

\* upsample_mcu(out = mcu_row, xoffset, width = padded_width, bpp, mcu, h = hmax,
\* v = vmax): whether one of its slice, load or store indices is out of bounds
UpsamplePanics(d, xoffset) ==
    LET width == d.padded_width
        bpp == d.num_components
        y_blocks == d.hmax * d.vmax
        cr_len == d.mcu_len - y_blocks * 64 - 64
    IN IF d.mcu_len = 64
       THEN xoffset + 7 + 7 * width >= d.mcu_row_len
       ELSE \/ y_blocks * 64 + 64 > d.mcu_len
            \/ /\ y_blocks > 0
               /\ \/ cr_len < 64
                  \/ (8 * (d.vmax - 1) + 7) * (width * bpp) + xoffset
                       + (d.hmax - 1) * 8 * bpp + 7 * bpp + 2 >= d.mcu_row_len

\* the bounds of range_step in decode_mcu_row
RowStop(d) == d.padded_width * d.num_components
RowStep(d) == d.num_components * 8 * d.hmax

\* The part of decode_block that needs no entropy data: the slice of the MCU buffer
\* and the three table lookups
BlockIndexPanics(d, i, comp) ==
    \/ i * 64 + 64 > d.mcu_len
    \/ comp.dc_table > 1
    \/ comp.ac_table > 1
    \/ 64 * comp.tq + 64 > 64 * 4

\* A table built by derive_tables decodes symbols; the default table holds no code
TablesDecode(d, comp) ==
    /\ d.dctables[comp.dc_table] = "derived"
    /\ d.actables[comp.ac_table] = "derived"

\* decode_block(i, c.dc_table, c.dc_pred, c.ac_table, c.tq) up to its result.
\* b gives what the entropy decoder reads: the DC symbol t, the t bits v, how the
\* rest of the block ends (err), and the HuffDecoder it leaves behind (h)
DecodeBlock(d, i, comp, b) ==
    IF BlockIndexPanics(d, i, comp) THEN [d |-> d, res |-> "Panic", pred |-> comp.dc_pred]
    ELSE IF ~TablesDecode(d, comp)
    THEN [d |-> [d EXCEPT !.h = b.h],
          res |-> IF b.err = "none" THEN "FormatError" ELSE b.err,
          pred |-> comp.dc_pred]
    ELSE IF b.err # "none"
    THEN [d |-> [d EXCEPT !.h = b.h], res |-> b.err, pred |-> comp.dc_pred]
    ELSE [d |-> [d EXCEPT !.h = b.h], res |-> "Ok",
          pred |-> Extend(b.v, b.t) + comp.dc_pred]

\* decode_mcu: the first scan component from index n on that has blocks to decode
\* (a component with h * v = 0 is cloned and inserted back unchanged)
RECURSIVE NextComponent(_, _)
NextComponent(d, n) ==
    IF n > Len(d.scan_components) THEN n
    ELSE LET comp == d.components[d.scan_components[n]]
         IN IF comp.h * comp.v > 0 THEN n ELSE NextComponent(d, n + 1)

---------------------------------------------------------------------------
(* The inputs *)

\* image dimensions: 0 and the multiples of 8 up to MaxBlocks blocks
Dims == {0} \cup {8 * n : n \in 1..MaxBlocks}

FrameComps(n, hv, tq) ==
    IF n = 1 THEN << [id |-> 1, hv |-> hv, tq |-> tq] >>
    ELSE << [id |-> 1, hv |-> hv, tq |-> tq],
            [id |-> 2, hv |-> 17, tq |-> 1],
            [id |-> 3, hv |-> 17, tq |-> 1] >>

Frame(p, h, w, n, comps) ==
    [precision |-> p, height |-> h, width |-> w, n |-> n, comps |-> comps]

\* frame headers: grayscale frames of every size; a grayscale frame that declares
\* sampling 2x1 and table 4; colour frames of 16x8 with luma sampling 2x1 (0x21),
\* 0x0 (0x00), and 1x1 with table 4; frames of 12-bit samples; one of two
\* components; one whose component list is cut short by the end of the stream
FrameInputs ==
    {Frame(8, h, w, 1, FrameComps(1, 17, 0)) : h \in Dims \ {0}, w \in Dims \ {0}}
    \cup {Frame(8, 0, 8, 1, FrameComps(1, 17, 0)),
          Frame(8, 8, 0, 1, FrameComps(1, 17, 0)),
          Frame(8, 8, 8, 1, FrameComps(1, 33, 4)),
          Frame(8, 8, 16, 3, FrameComps(3, 33, 0)),
          Frame(8, 8, 16, 3, FrameComps(3, 0, 0)),
          Frame(8, 8, 16, 3, FrameComps(3, 17, 4)),
          Frame(12, 8, 8, 1, FrameComps(1, 17, 0)),
          Frame(12, 0, 8, 1, FrameComps(1, 17, 0)),
          Frame(8, 8, 8, 2, FrameComps(1, 17, 0)),
          Frame(8, 8, 8, 3, FrameComps(1, 17, 0))}

Scan(n, comps, complete) == [n |-> n, comps |-> comps, complete |-> complete]

\* scan headers: of one component with table selectors 0x00, 0x11 and 0x40, of
\* three components, of none, one naming component 2 alone, and one that ends
\* before its last three bytes
ScanInputs ==
    {Scan(1, << [id |-> 1, tables |-> tb] >>, TRUE) : tb \in {0, 17, 64}}
    \cup {Scan(3, << [id |-> 1, tables |-> 0], [id |-> 2, tables |-> 0],
                     [id |-> 3, tables |-> 0] >>, TRUE),
          Scan(0, << >>, TRUE),
          Scan(1, << [id |-> 2, tables |-> 0] >>, TRUE),
          Scan(1, << [id |-> 1, tables |-> 0] >>, FALSE)}

\* DHT segments: one table of class tc and id th, or a DC and an AC table
DhtInputs ==
    { << [tc |-> 0, th |-> 0] >>,
      << [tc |-> 2, th |-> 0] >>, << [tc |-> 0, th |-> 2] >>,
      << [tc |-> 0, th |-> 0], [tc |-> 1, th |-> 0] >> }

\* DQT segments
DqtInputs ==
    { << [pq |-> 0, tq |-> 0] >>, << [pq |-> 1, tq |-> 0] >>,
      << [pq |-> 0, tq |-> 0], [pq |-> 0, tq |-> 4] >> }

\* restart intervals of DRI segments
Intervals == 0..MaxInterval

\* what decode_symbol and receive leave in the HuffDecoder: buffered bits, or a
\* marker met in the entropy data and cached
HAfterBlock ==
    {[bits |-> 1, num_bits |-> 1, end |-> FALSE, marker |-> 0]}
    \cup {[bits |-> 0, num_bits |-> 0, end |-> TRUE, marker |-> m] :
             m \in {RST0}}

\* the DC symbol t and the t bits received
DcInputs == {<<0, 0>>, <<1, 0>>}

BlockInputs ==
    {[t |-> tv[1], v |-> tv[2], err |-> "none", h |-> h] :
        tv \in DcInputs, h \in HAfterBlock}
    \cup {[t |-> 0, v |-> 0, err |-> e,
           h |-> [bits |-> 1, num_bits |-> 1, end |-> FALSE, marker |-> 0]] :
             e \in {"FormatError", "IoError", "Panic"}}

\* what the scan for a restart marker meets: RST0..RST7, EOI, or 0 for the end
StreamMarkers == (RST0..RST7) \cup {EOI, 0}

\* the public calls
Queries == {"dimensions", "colortype", "row_len"}
Calls == Queries \cup {"read_scanline", "read_image"}

\* dimensions, colortype and row_len differ in the value they return only: the
\* call in progress is kept as "query" for the three
Kind(cn) == IF cn \in Queries THEN "query" ELSE cn

\* rows a caller asks for: one more than the tallest image has
RowCap == 8 * MaxBlocks + 1

NoC == [id |-> 0]

\* no coefficient stored yet in tmp; no call of extend yet
NoCoef == [pos |-> 0, val |-> 0]
NoExt == [v |-> 0, t |-> 0, r |-> 0]

\* lengths of APPn and COM segments
AppLens == {0, 2, 3}

\* no APPn/COM segment read yet; no call of upsample_mcu yet; no call of idct yet
NoSkip == [len |-> 2, avail |-> 0, consumed |-> 0, res |-> "none"]
NoUp == [stage |-> "none"]
NoTr == [stage |-> "none"]

---------------------------------------------------------------------------
(* The decoder as a state machine *)

Init ==
    /\ dec = New
    /\ pc = "idle"
    /\ call = "none"
    /\ left = 0
    /\ x0 = 0
    /\ ci = 0
    /\ bi = 0
    /\ blk = 0
    /\ c = NoC
    /\ result = "none"
    /\ fails = 0
    /\ rst = 0
    /\ rstlog = << >>
    /\ k = 1
    /\ zidx = 0
    /\ bres = "idle"
    /\ coef = NoCoef
    /\ ext = NoExt
    /\ skip = NoSkip
    /\ up = NoUp
    /\ tr = NoTr

NoLocals == x0' = 0 /\ ci' = 0 /\ bi' = 0 /\ blk' = 0 /\ c' = NoC

\* the public call in progress returns res to its caller; a panic ends the run
Return(res) ==
    /\ result' = res
    /\ fails' = IF res = "Ok" THEN fails ELSE fails + 1
    /\ call' = "none"
    /\ left' = 0
    /\ pc' = IF res = "Panic" THEN "crashed" ELSE "idle"
    /\ NoLocals

\* decode_mcu begins: position at the first block to decode
StartMcu(d, x) ==
    LET n == NextComponent(d, 1)
    IN /\ x0' = x
       /\ ci' = n
       /\ bi' = 0
       /\ blk' = 0
       /\ c' = NoC
       /\ pc' = IF n > Len(d.scan_components) THEN "mcuend" ELSE "mcu"

\* the rest of read_scanline with `self.row_count + 1` not reduced modulo vmax * 8
CopyRowNoWrap(d) ==
    LET len == d.padded_width * d.num_components
        buf_len == d.width * d.num_components
    IN IF d.row_count * len + buf_len > d.mcu_row_len \/ d.vmax = 0
       THEN Out(d, "Panic")
       ELSE Out([d EXCEPT !.row_count = @ + 1, !.decoded_rows = @ + 1], "Ok")

\* the rest of read_scanline, after decode_mcu_row if it was due: the slice of
\* mcu_row of the length of the caller's buffer (row_len bytes), copy_memory, and
\* the two counters
CopyRow(d) ==
    LET len == d.padded_width * d.num_components
        buf_len == d.width * d.num_components
    IN IF d.row_count * len + buf_len > d.mcu_row_len \/ d.vmax = 0
       THEN Out(d, "Panic")
       ELSE Out([d EXCEPT !.row_count = (@ + 1) % (d.vmax * 8),
                          !.decoded_rows = @ + 1], "Ok")

\* read_scanline calls decode_mcu_row when row_count is 0; its loop has an
\* iteration when the range of range_step is not empty
NeedsDecode(d) == d.row_count = 0 /\ 0 < RowStop(d)

\* n calls of read_scanline in a row, up to the first one that has entropy data to
\* decode (res = "decode", with the calls left) or that fails
RECURSIVE Rows(_, _)
Rows(d, n) ==
    IF n = 0 THEN [d |-> d, res |-> "Ok", left |-> 0]
    ELSE IF NeedsDecode(d) THEN [d |-> d, res |-> "decode", left |-> n]
    ELSE LET o == CopyRow(d)
         IN IF o.res # "Ok" THEN [d |-> o.d, res |-> o.res, left |-> 0]
            ELSE Rows(o.d, n - 1)

\* the read_scanline whose MCU row has just been decoded, and the n - 1 after it
RowsAfterDecode(d, n) ==
    LET o == CopyRow(d)
    IN IF o.res # "Ok" THEN [d |-> o.d, res |-> o.res, left |-> 0]
       ELSE Rows(o.d, n - 1)

\* read_image after the metadata: row_len, the buffer, chunks_mut(row), which
\* panics for row = 0, and one read_scanline per chunk
ReadImageRows(d) ==
    IF d.width * d.num_components = 0 THEN [d |-> d, res |-> "Panic", left |-> 0]
    ELSE Rows(d, d.height)

\* what public call cn does once `if self.state == Start { read_metadata() }` is
\* behind it
AfterMetadata(d, cn) ==
    IF cn = "read_scanline" THEN Rows(d, 1)
    ELSE IF cn = "read_image" THEN ReadImageRows(d)
    ELSE [d |-> d, res |-> "Ok", left |-> 0]

\* the call goes on to decode an MCU row, or returns
Proceed(r, cn) ==
    /\ dec' = r.d
    /\ IF r.res = "decode"
       THEN /\ StartMcu(r.d, 0)
            /\ call' = cn
            /\ left' = r.left
            /\ result' = "none"
            /\ UNCHANGED fails
       ELSE Return(r.res)

\* A public call begins: `if self.state == JPEGState::Start { read_metadata() }`
Call(cn) ==
    /\ UNCHANGED bvars
    /\ pc = "idle"
    /\ fails <= MaxFails
    /\ cn = "read_scanline" => dec.decoded_rows < RowCap
    /\ cn = "read_image" => dec.decoded_rows + 8 * MaxBlocks <= RowCap
    /\ rst' = 0
    /\ UNCHANGED rstlog
    /\ IF dec.state = "Start"
       THEN /\ pc' = "meta"
            /\ call' = Kind(cn)
            /\ result' = "none"
            /\ UNCHANGED <<dec, left, x0, ci, bi, blk, c, fails>>
       ELSE Proceed(AfterMetadata(dec, cn), Kind(cn))

\* One iteration of the loop of read_metadata that ends with outcome out of the
\* marker's arm: an error returns from the call (try!), HaveFirstScan ends the loop
\* and the call goes on
Meta(out) ==
    /\ UNCHANGED bvars
    /\ pc = "meta"
    /\ rst' = 0
    /\ UNCHANGED rstlog
    /\ IF out.res # "Ok" THEN dec' = out.d /\ Return(out.res)
       ELSE IF out.d.state = "HaveFirstScan" THEN Proceed(AfterMetadata(out.d, call), call)
       ELSE /\ dec' = out.d
            /\ UNCHANGED <<pc, call, left, result, fails, x0, ci, bi, blk, c>>

\* the arm of SOF0: the state is set only after read_frame_header returned Ok
OnSOF0(d, f) ==
    LET o == ReadFrameHeader(d, f)
    IN IF o.res = "Ok" THEN Out([o.d EXCEPT !.state = "HaveFirstFrame"], "Ok") ELSE o

\* the arm of SOS
OnSOS(d, s) ==
    LET o == ReadScanHeader(d, s)
    IN IF o.res = "Ok" THEN Out([o.d EXCEPT !.state = "HaveFirstScan"], "Ok") ELSE o

\* the arm of SOI
OnSOI(d) == Out([d EXCEPT !.state = "HaveSOI"], "Ok")

MarkerSOI == Meta(OnSOI(dec))

MarkerDHT == \E tabs \in DhtInputs : Meta(ReadHuffmanTables(dec, tabs))

MarkerDQT == \E tabs \in DqtInputs : Meta(ReadQuantizationTables(dec, tabs))

MarkerSOF0(f) == Meta(OnSOF0(dec, f))

MarkerSOS(s) == Meta(OnSOS(dec, s))

MarkerDRI == \E v \in Intervals : Meta(ReadRestartInterval(dec, v))

\* APP0 ... APPF | COM: length - 2 bytes are skipped; length - 2 is computed in u16,
\* which for a length below 2 panics in a build with overflow checks and wraps in one without
MarkerAPP ==
    \E len \in AppLens : \E checked \in BOOLEAN :
        Meta(Out(dec, IF len < 2 /\ checked THEN "Panic" ELSE "Ok"))

\* a byte that is not 0xFF, or the marker TEM: continue
MarkerTEM == Meta(Out(dec, "Ok"))

\* SOF2 falling into the arm of the unknown markers
MarkerSOF2AsUnknown == Meta(Out(dec, "FormatError"))

MarkerSOF2 == Meta(Out(dec, "UnsupportedError"))

MarkerDNL == Meta(Out(dec, "UnsupportedError"))

\* any other marker
MarkerOther == Meta(Out(dec, "FormatError"))

\* read_u8 at the end of the stream
StreamEnd == Meta(Out(dec, "IoError"))

\* one block for every component
BlocksOfOne(comp) == 1

\* decode_mcu: the bound of `for _ in (0..c.h * c.v)`
BlocksOf(comp) == comp.h * comp.v

\* decode_mcu: one call of decode_block for the current scan component, on what
\* the entropy decoder reads (b); the component is cloned before its first block
\* and inserted back after its last
BlockStep(b) ==
    /\ UNCHANGED bvars
    /\ pc = "mcu"
    /\ rst' = 0
    /\ UNCHANGED rstlog
    /\ LET id == dec.scan_components[ci]
           cur == IF bi = 0 THEN dec.components[id] ELSE c
           o == DecodeBlock(dec, blk, cur, b)
       IN IF o.res # "Ok" THEN dec' = o.d /\ Return(o.res)
          ELSE LET c1 == [cur EXCEPT !.dc_pred = o.pred]
                   last == bi + 1 = BlocksOf(cur)
                   d1 == IF last THEN [o.d EXCEPT !.components[id] = c1] ELSE o.d
                   n == IF last THEN NextComponent(d1, ci + 1) ELSE ci
                   done == n > Len(d1.scan_components)
               IN /\ o.pred >= 0 - MaxDc
                  /\ dec' = d1
                  /\ c' = IF last THEN NoC ELSE c1
                  /\ bi' = IF last THEN 0 ELSE bi + 1
                  /\ blk' = IF done THEN 0 ELSE blk + 1
                  /\ ci' = n
                  /\ pc' = IF done THEN "mcuend" ELSE "mcu"
                  /\ UNCHANGED <<call, left, result, fails, x0>>

\* whether read_restart will read the stream for a marker
ScansStream(d) ==
    /\ d.hmax # 0
    /\ d.vmax # 0
    /\ RestartDue(d)
    /\ d.h.marker = 0

\* the end of decode_mcu (mcucount += 1; read_restart) and the rest of the iteration
\* of decode_mcu_row (upsample_mcu, the step of range_step); after the last
\* iteration read_scanline goes on
McuEnd(m) ==
    /\ UNCHANGED bvars
    /\ pc = "mcuend"
    /\ LET d1 == [dec EXCEPT !.mcucount = @ + 1]
           r == ReadRestart(d1, m)
           x == x0 + RowStep(r.d)
       IN /\ m \in (IF ScansStream(d1) THEN StreamMarkers ELSE {0})
          /\ rst' = r.m
          /\ rstlog' = IF r.res = "Ok" /\ r.m # 0 THEN Append(rstlog, r.m) ELSE rstlog
          /\ IF r.res # "Ok" THEN dec' = r.d /\ Return(r.res)
             ELSE IF UpsamplePanics(r.d, x0) THEN dec' = r.d /\ Return("Panic")
             ELSE IF x < RowStop(r.d)
             THEN dec' = r.d /\ StartMcu(r.d, x) /\ UNCHANGED <<call, left, result, fails>>
             ELSE Proceed(RowsAfterDecode(r.d, left), call)

Next ==
    \/ \E cn \in Calls : Call(cn)
    \/ MarkerSOI
    \/ MarkerDHT
    \/ MarkerDQT
    \/ \E f \in FrameInputs : MarkerSOF0(f)
    \/ \E s \in ScanInputs : MarkerSOS(s)
    \/ MarkerDRI
    \/ MarkerAPP
    \/ MarkerTEM
    \/ MarkerSOF2
    \/ MarkerDNL
    \/ MarkerOther
    \/ StreamEnd
    \/ \E b \in BlockInputs : BlockStep(b)
    \/ \E m \in StreamMarkers : McuEnd(m)

\* The decoder from construction on, under any stream and any public calls
Spec == Init /\ [][Next]_vars

---------------------------------------------------------------------------
(* Long scans: the decoder after read_metadata has parsed SOI, DHT, SOF0, DRI   *)
(* and SOS of a grayscale image one MCU row high and up to ScanBlocks MCUs wide, *)
(* then read by read_scanline                                                   *)

ScanBlocks == 11

Parsed(w, ri) ==
    LET d1 == OnSOI(New).d
        d2 == ReadHuffmanTables(d1, << [tc |-> 0, th |-> 0], [tc |-> 1, th |-> 0] >>).d
        d3 == OnSOF0(d2, Frame(8, 8, w, 1, FrameComps(1, 17, 0))).d
        d4 == ReadRestartInterval(d3, ri).d
    IN OnSOS(d4, Scan(1, << [id |-> 1, tables |-> 0] >>, TRUE)).d

InitScan ==
    /\ \E wb \in (ScanBlocks - 1)..ScanBlocks : \E ri \in 1..MaxInterval :
          dec = Parsed(8 * wb, ri)
    /\ pc = "idle"
    /\ call = "none"
    /\ left = 0
    /\ x0 = 0
    /\ ci = 0
    /\ bi = 0
    /\ blk = 0
    /\ c = NoC
    /\ result = "Ok"
    /\ fails = 0
    /\ rst = 0
    /\ rstlog = << >>
    /\ k = 1
    /\ zidx = 0
    /\ bres = "idle"
    /\ coef = NoCoef
    /\ ext = NoExt
    /\ skip = NoSkip
    /\ up = NoUp
    /\ tr = NoTr

NextScan ==
    \/ Call("read_scanline")
    \/ \E b \in BlockInputs : BlockStep(b)
    \/ \E m \in StreamMarkers : McuEnd(m)

SpecScan == InitScan /\ [][NextScan]_vars

---------------------------------------------------------------------------
(* Rows: the decoder after read_metadata has parsed SOI, DHT, SOF0, DRI and SOS of *)
(* a colour image with 2x2 luma sampling, of one 8 pixels wide with 2x1 luma       *)
(* sampling, or of a grayscale image that declares 2x2, then read by read_scanline *)

ParsedFrame(f, s, ri) ==
    LET d1 == OnSOI(New).d
        d2 == ReadHuffmanTables(d1, << [tc |-> 0, th |-> 0], [tc |-> 1, th |-> 0] >>).d
        d3 == OnSOF0(d2, f).d
        d4 == ReadRestartInterval(d3, ri).d
    IN OnSOS(d4, s).d

GrayScan == Scan(1, << [id |-> 1, tables |-> 0] >>, TRUE)

ColourScan ==
    Scan(3, << [id |-> 1, tables |-> 0], [id |-> 2, tables |-> 0],
               [id |-> 3, tables |-> 0] >>, TRUE)

RowImages ==
    {ParsedFrame(Frame(8, 16, 16, 3, FrameComps(3, 34, 0)), ColourScan, ri) : ri \in {0, 1}}
    \cup {ParsedFrame(Frame(8, 16, 8, 3, FrameComps(3, 33, 0)), ColourScan, 1)}
    \cup {ParsedFrame(Frame(8, 16, 16, 1, FrameComps(1, 34, 0)), GrayScan, ri) :
              ri \in 0..MaxInterval}

InitRows ==
    /\ dec \in RowImages
    /\ pc = "idle"
    /\ call = "none"
    /\ left = 0
    /\ x0 = 0
    /\ ci = 0
    /\ bi = 0
    /\ blk = 0
    /\ c = NoC
    /\ result = "Ok"
    /\ fails = 0
    /\ rst = 0
    /\ rstlog = << >>
    /\ k = 1
    /\ zidx = 0
    /\ bres = "idle"
    /\ coef = NoCoef
    /\ ext = NoExt
    /\ skip = NoSkip
    /\ up = NoUp
    /\ tr = NoTr

NextRows ==
    \/ Call("read_scanline")
    \/ \E b \in BlockInputs : BlockStep(b)
    \/ \E m \in StreamMarkers : McuEnd(m)

SpecRows == InitRows /\ [][NextRows]_vars

---------------------------------------------------------------------------
(* Frame headers of every width: read_metadata after SOI, reading SOF0 segments *)

MaxWidth == 40

\* frames of three components whose first has sampling factors h x 1, and frames of
\* one component that declares them
WideFrames ==
    {Frame(8, 8, w, n, FrameComps(n, 16 * h + 1, 0)) :
        w \in 1..MaxWidth, h \in 1..4, n \in {1, 3}}

InitFrame ==
    /\ dec = OnSOI(New).d
    /\ pc = "meta"
    /\ call = "query"
    /\ left = 0
    /\ x0 = 0
    /\ ci = 0
    /\ bi = 0
    /\ blk = 0
    /\ c = NoC
    /\ result = "none"
    /\ fails = 0
    /\ rst = 0
    /\ rstlog = << >>
    /\ k = 1
    /\ zidx = 0
    /\ bres = "idle"
    /\ coef = NoCoef
    /\ ext = NoExt
    /\ skip = NoSkip
    /\ up = NoUp
    /\ tr = NoTr

NextFrame == \E f \in WideFrames : MarkerSOF0(f)

SpecFrame == InitFrame /\ [][NextFrame]_vars

---------------------------------------------------------------------------
(* The decoder after a call whose read_metadata met a malformed DQT segment *)

\* a table of 16-bit precision or of an id above 3
Malformed(tabs) == \E i \in 1..Len(tabs) : tabs[i].pq # 0 \/ tabs[i].tq > 3

\* what read_metadata had parsed before the segment
DqtPrefixes ==
    {New, OnSOI(New).d, OnSOF0(OnSOI(New).d, Frame(8, 8, 8, 1, FrameComps(1, 17, 0))).d}

InitDqt ==
    /\ \E d0 \in DqtPrefixes : \E tabs \in DqtInputs :
          LET o == ReadQuantizationTables(d0, tabs)
          IN /\ Malformed(tabs)
             /\ dec = o.d
             /\ result = o.res
             /\ pc = IF o.res = "Ok" THEN "meta" ELSE "idle"
             /\ call = IF o.res = "Ok" THEN "query" ELSE "none"
             /\ fails = IF o.res = "Ok" THEN 0 ELSE 1
    /\ left = 0
    /\ x0 = 0
    /\ ci = 0
    /\ bi = 0
    /\ blk = 0
    /\ c = NoC
    /\ rst = 0
    /\ rstlog = << >>
    /\ k = 1
    /\ zidx = 0
    /\ bres = "idle"
    /\ coef = NoCoef
    /\ ext = NoExt
    /\ skip = NoSkip
    /\ up = NoUp
    /\ tr = NoTr

SpecDqt == InitDqt /\ [][Next]_vars

---------------------------------------------------------------------------
(* The AC loop of decode_block *)

\* the largest size ssss of the AC symbols drawn
MaxSize == 10

\* AC symbols rs = rrrr << 4 | ssss, of every run and of the sizes 0, 1 and MaxSize
AcSymbols == {16 * rrrr + ssss : rrrr \in 0..15, ssss \in {0, 1, MaxSize}}

\* the permutation of dct coefficients, UNZIGZAG[i] of the source being UNZIGZAG[i + 1]
UNZIGZAG ==
    <<  0,  1,  8, 16,  9,  2,  3, 10,
       17, 24, 32, 25, 18, 11,  4,  5,
       12, 19, 26, 33, 40, 48, 41, 34,
       27, 20, 13,  6,  7, 14, 21, 28,
       35, 42, 49, 56, 57, 50, 43, 36,
       29, 22, 15, 23, 30, 37, 44, 51,
       58, 59, 52, 45, 38, 31, 39, 46,
       53, 60, 61, 54, 47, 55, 62, 63 >>

\* what receive(ssss) returns: the least and the greatest value of ssss bits and the
\* two around the sign threshold
ReceiveBits(ssss) ==
    IF ssss = 0 THEN {0}
    ELSE {0, Pow2(ssss - 1) - 1, Pow2(ssss - 1), Pow2(ssss) - 1}

\* entries of a quantization table (u8)
QEntries == {1, 255}

\* `as i16` of a value
WrapI16(x) == ((x + 32768) % 65536) - 32768

\* extend(t, ssss) as i16 * qtable[k] as i16: a multiplication of i16 that
\* overflows panics in a build with overflow checks and wraps in one without
Product(v, ssss, q, checked) ==
    LET x == WrapI16(Extend(v, ssss)) * q
    IN IF x = WrapI16(x) THEN [res |-> "Ok", val |-> x]
       ELSE IF checked THEN [res |-> "Panic", val |-> 0]
       ELSE [res |-> "Ok", val |-> WrapI16(x)]

\* One iteration of `while k < 64` on the symbol rs that decode_symbol returned:
\* the index after it, the index a coefficient was placed with (0 if none), and
\* whether the loop goes on; UNZIGZAG[k] and qtable[k] panic for k > 63
AcIteration(kk, rs) ==
    LET ssss == rs % 16
        rrrr == rs \div 16
    IN IF ssss = 0
       THEN IF rrrr # 15 THEN [k |-> kk, zidx |-> 0, res |-> "Ok"]
            ELSE [k |-> kk + 16, zidx |-> 0, res |-> "run"]
       ELSE IF kk + rrrr > 63
            THEN [k |-> kk + rrrr, zidx |-> kk + rrrr, res |-> "Panic"]
            ELSE [k |-> kk + rrrr + 1, zidx |-> kk + rrrr, res |-> "run"]

InitBlock ==
    /\ dec = New
    /\ pc = "idle"
    /\ call = "none"
    /\ left = 0
    /\ x0 = 0
    /\ ci = 0
    /\ bi = 0
    /\ blk = 0
    /\ c = NoC
    /\ result = "none"
    /\ fails = 0
    /\ rst = 0
    /\ rstlog = << >>
    /\ k = 1
    /\ zidx = 0
    /\ bres = "run"
    /\ coef = NoCoef
    /\ ext = NoExt
    /\ skip = NoSkip
    /\ up = NoUp
    /\ tr = NoTr

\* an iteration of the loop on symbol rs, the ssss bits v that receive returns and
\* the entry q = qtable[k]; the loop ends, and the block goes to the IDCT, when the
\* symbol is an end of block or k has reached 64
AcLoop(rs, v, q, checked) ==
    /\ bres = "run"
    /\ LET it == AcIteration(k, rs)
           stores == it.zidx # 0 /\ it.res # "Panic"
           p == Product(v, rs % 16, q, checked)
       IN /\ k' = it.k
          /\ zidx' = IF it.zidx = 0 THEN zidx ELSE it.zidx
          /\ coef' = IF stores /\ p.res = "Ok"
                     THEN [pos |-> UNZIGZAG[it.zidx + 1], val |-> p.val]
                     ELSE coef
          /\ bres' = IF stores /\ p.res # "Ok" THEN p.res
                     ELSE IF it.res = "run" /\ it.k >= 64 THEN "Ok"
                     ELSE it.res
    /\ UNCHANGED <<ext, avars, dvars>>

\* decode_symbol or receive fails: try! returns the error
AcError(e) ==
    /\ bres = "run"
    /\ bres' = e
    /\ UNCHANGED <<k, zidx, coef, ext, avars, dvars>>

NextBlock ==
    \/ \E rs \in AcSymbols : \E v \in ReceiveBits(rs % 16) : \E q \in QEntries :
          \E checked \in BOOLEAN : AcLoop(rs, v, q, checked)
    \/ \E e \in {"FormatError", "IoError"} : AcError(e)

SpecBlock == InitBlock /\ [][NextBlock]_vars

---------------------------------------------------------------------------
(* extend on every size t and every value v of t bits *)

ExtendSizes == 0..16

\* the values of t bits
ExtendValues(t) == 0..(Pow2(t) - 1)

InitExtend ==
    /\ dec = New
    /\ pc = "idle"
    /\ call = "none"
    /\ left = 0
    /\ x0 = 0
    /\ ci = 0
    /\ bi = 0
    /\ blk = 0
    /\ c = NoC
    /\ result = "none"
    /\ fails = 0
    /\ rst = 0
    /\ rstlog = << >>
    /\ k = 1
    /\ zidx = 0
    /\ bres = "extend"
    /\ coef = NoCoef
    /\ \E t \in ExtendSizes : \E v \in ExtendValues(t) : ext = [v |-> v, t |-> t, r |-> 0]
    /\ skip = NoSkip
    /\ up = NoUp
    /\ tr = NoTr

\* the call extend(v, t)
ExtendCall ==
    /\ bres = "extend"
    /\ ext' = [ext EXCEPT !.r = Extend(ext.v, ext.t)]
    /\ bres' = "Ok"
    /\ UNCHANGED <<k, zidx, coef, avars, dvars>>

NextExtend == ExtendCall

SpecExtend == InitExtend /\ [][NextExtend]_vars

---------------------------------------------------------------------------
(* The APPn/COM arm of read_metadata on segments of every declared length, with *)
(* fewer, as many and more bytes left in the stream than the length declares     *)

MaxLen == 40

\* declared lengths: the small ones and the largest of a u16
SegLens == 0..MaxLen \cup {65535}

\* bytes left in the stream after the two length bytes
Remainders == {0, MaxLen, 65536}

\* (length - 2) as usize, computed in u16 by a build without overflow checks
PayloadLen(length) == (length - 2) % 65536

\* r.take(n).read_to_end(&mut buf): n bytes, or what is left of the stream; no error
TakeToEnd(n, avail) == IF n < avail THEN n ELSE avail

InitApp ==
    /\ dec = OnSOI(New).d
    /\ pc = "meta"
    /\ call = "query"
    /\ left = 0
    /\ x0 = 0
    /\ ci = 0
    /\ bi = 0
    /\ blk = 0
    /\ c = NoC
    /\ result = "none"
    /\ fails = 0
    /\ rst = 0
    /\ rstlog = << >>
    /\ k = 1
    /\ zidx = 0
    /\ bres = "idle"
    /\ coef = NoCoef
    /\ ext = NoExt
    /\ skip = NoSkip
    /\ up = NoUp
    /\ tr = NoTr

\* the arm APP0 ... APPF | COM of read_metadata with the bytes it consumes: the
\* subtraction panics in a build with overflow checks when length < 2, else the
\* loop goes on with the byte after the payload
AppSegment(len, avail, checked) ==
    LET under == len < 2 /\ checked
    IN /\ pc = "meta"
       /\ skip' = [len |-> len, avail |-> avail,
                   consumed |-> IF under THEN 0 ELSE TakeToEnd(PayloadLen(len), avail),
                   res |-> IF under THEN "Panic" ELSE "Ok"]
       /\ rst' = 0
       /\ IF under THEN Return("Panic")
          ELSE UNCHANGED <<pc, call, left, result, fails, x0, ci, bi, blk, c>>
       /\ UNCHANGED <<dec, rstlog, k, zidx, bres, coef, ext, up, tr>>

NextApp ==
    \E len \in SegLens : \E avail \in Remainders : \E checked \in BOOLEAN :
        AppSegment(len, avail, checked)

SpecApp == InitApp /\ [][NextApp]_vars

---------------------------------------------------------------------------
(* upsample_mcu, store by store, as decode_mcu_row calls it on the parsed frames *)
(* of every width up to UpBlocks blocks: colour frames with luma sampling h x v  *)
(* and chroma 1 x 1, and grayscale frames                                        *)

UpBlocks == 3

UpImages ==
    {ParsedFrame(Frame(8, 16, w, 3, FrameComps(3, 16 * h + v, 0)), ColourScan, 0) :
         w \in 1..(8 * UpBlocks), h \in 1..2, v \in 1..2}
    \cup {ParsedFrame(Frame(8, 16, w, 1, FrameComps(1, 17, 0)), GrayScan, 0) :
              w \in 1..(8 * UpBlocks)}

\* the values x0 takes in range_step(0, stop, step) of decode_mcu_row
RowOffsets(d) == {x \in 0..(RowStop(d) - 1) : x % RowStep(d) = 0}

\* one store group of upsample_mcu: out[off .. off + bpp - 1] is written from the luma
\* sample ysrc of y_blocks (of mcu, for one component) and the sample csrc of cb and cr;
\* px, py is the pixel of the MCU the loop variables stand for
Store(off, ysrc, csrc, px, py) ==
    [off |-> off, ysrc |-> ysrc, csrc |-> csrc, px |-> px, py |-> py]

InitUp ==
    /\ dec \in UpImages
    /\ pc = "idle"
    /\ call = "none"
    /\ left = 0
    /\ x0 = 0
    /\ ci = 0
    /\ bi = 0
    /\ blk = 0
    /\ c = NoC
    /\ result = "Ok"
    /\ fails = 0
    /\ rst = 0
    /\ rstlog = << >>
    /\ k = 1
    /\ zidx = 0
    /\ bres = "idle"
    /\ coef = NoCoef
    /\ ext = NoExt
    /\ skip = NoSkip
    /\ up = NoUp
    /\ tr = NoTr

\* the call upsample_mcu(&mut self.mcu_row, x0, self.padded_width, bytesperpixel,
\* &self.mcu, self.hmax, self.vmax) up to its first store: the branch on mcu.len()
\* and the three slices of the colour branch
UpsampleCall(xoffset) ==
    /\ up.stage = "none"
    /\ up' = [stage |-> IF dec.mcu_len = 64 THEN "gray"
                        ELSE IF dec.hmax * dec.vmax * 64 + 64 > dec.mcu_len THEN "Panic"
                        ELSE "colour",
              xoffset |-> xoffset, by |-> 0, bx |-> 0, y |-> 0, i |-> 0, stores |-> {}]
    /\ UNCHANGED <<dvars, k, zidx, bres, coef, ext, skip, tr>>

\* the loop variables after one more iteration of the innermost loop, whose variable
\* runs to 8 and whose row variable advances by dy
UpAdvance(u, h, v, dy) ==
    IF u.i + 1 < 8 THEN [u EXCEPT !.i = u.i + 1]
    ELSE IF u.y + dy < 8 THEN [u EXCEPT !.i = 0, !.y = u.y + dy]
    ELSE IF u.bx + 1 < h THEN [u EXCEPT !.i = 0, !.y = 0, !.bx = u.bx + 1]
    ELSE IF u.by + 1 < v THEN [u EXCEPT !.i = 0, !.y = 0, !.bx = 0, !.by = u.by + 1]
    ELSE [u EXCEPT !.stage = "done"]

\* the branch mcu.len() == 64: out[xoffset + x + (y * width)] = mcu[x + y * 8]
UpsampleGray ==
    LET off == up.xoffset + up.i + up.y * dec.padded_width
        src == up.i + up.y * 8
    IN /\ up.stage = "gray"
       /\ up' = IF off >= dec.mcu_row_len THEN [up EXCEPT !.stage = "Panic"]
                ELSE [UpAdvance(up, 1, 1, 1) EXCEPT
                          !.stores = {Store(off, src, src, up.i, up.y)}]
       /\ UNCHANGED <<dvars, k, zidx, bres, coef, ext, skip, tr>>

\* in block bx, by of the luma blocks (the k-th), the iteration i of the loop that
\* stores pixel i of the rows y and y + 1 loaded from y_blocks at k * 64 + y * 8 and
\* from cb and cr at y * 8
UpsampleColour ==
    LET bpp == dec.num_components
        stride == dec.padded_width * bpp
        kk == up.by * dec.hmax + up.bx
        off == (up.by * 8 + up.y) * stride + up.xoffset + up.bx * 8 * bpp + up.i * bpp
        px == up.bx * 8 + up.i
        py == up.by * 8 + up.y
    IN /\ up.stage = "colour"
       /\ up' = IF off + stride + 2 >= dec.mcu_row_len THEN [up EXCEPT !.stage = "Panic"]
                ELSE [UpAdvance(up, dec.hmax, dec.vmax, 2) EXCEPT
                          !.stores = {Store(off, kk * 64 + up.y * 8 + up.i,
                                            up.y * 8 + up.i, px, py),
                                      Store(off + stride, kk * 64 + up.y * 8 + up.i + 8,
                                            up.y * 8 + up.i + 8, px, py + 1)}]
       /\ UNCHANGED <<dvars, k, zidx, bres, coef, ext, skip, tr>>

NextUp ==
    \/ \E x \in RowOffsets(dec) : UpsampleCall(x)
    \/ UpsampleGray
    \/ UpsampleColour

SpecUp == InitUp /\ [][NextUp]_vars

---------------------------------------------------------------------------
(* idct on the blocks whose 63 AC coefficients are zero, for every DC coefficient *)
(* of 16 bits: the branch taken, tmp after the first pass, the 64 samples          *)

CONST_BITS == 13
PASS1_BITS == 2

\* the DC coefficients: every i16
DcCoefficients == (0 - 32768)..32767

\* the row c0 of such a block: the DC coefficient in lane 0
DcRow(d) == [x \in 0..7 |-> IF x = 0 THEN d ELSE 0]

\* packs: i32x4 to i16x8 and i16x8 to i8x16 with signed saturation
SatI16(x) == IF x > 32767 THEN 32767 ELSE IF x < 0 - 32768 THEN 0 - 32768 ELSE x
SatI8(x) == IF x > 127 THEN 127 ELSE IF x < 0 - 128 THEN 0 - 128 ELSE x

\* x >> n on i32 lanes (arithmetic shift)
Shr(x, n) == x \div Pow2(n)

\* the shortcut branch for one lane: c0 << PASS1_BITS on i16 lanes
ShortcutLane(c0) == WrapI16(c0 * Pow2(PASS1_BITS))

\* the general branch for one lane whose coefficients c1 .. c7 are zero: t2, t3 and
\* the odd part are 0, z2 = (c0 << CONST_BITS) + the rounding constant, and combine
\* shifts and packs it into each of tmp[0] .. tmp[7]
ColumnLane(c0) ==
    SatI16(Shr(c0 * Pow2(CONST_BITS) + Pow2(CONST_BITS - PASS1_BITS - 1),
               CONST_BITS - PASS1_BITS))

\* the second pass for one lane whose inputs y1 .. y7 are zero: z2 = y0 + 16 on i16
\* lanes, t0 = z2 << CONST_BITS, sp shifts and packs it into each of a0 .. a7, ps
\* packs to i8 and adds 128 on u8 lanes
RowLane(y0) ==
    LET z2 == WrapI16(y0 + Pow2(PASS1_BITS + 2))
        a == SatI16(Shr(z2 * Pow2(CONST_BITS), CONST_BITS + PASS1_BITS + 3))
    IN (SatI8(a) + 128) % 256

NoRows == [r \in 0..7 |-> [x \in 0..7 |-> 0]]
NoSamples == [n \in 0..63 |-> 0]

InitIdct ==
    /\ dec = New
    /\ pc = "idle"
    /\ call = "none"
    /\ left = 0
    /\ x0 = 0
    /\ ci = 0
    /\ bi = 0
    /\ blk = 0
    /\ c = NoC
    /\ result = "none"
    /\ fails = 0
    /\ rst = 0
    /\ rstlog = << >>
    /\ k = 1
    /\ zidx = 0
    /\ bres = "idle"
    /\ coef = NoCoef
    /\ ext = NoExt
    /\ skip = NoSkip
    /\ up = NoUp
    /\ \E d \in DcCoefficients :
           tr = [stage |-> "call", d |-> d, branch |-> "none", tmp |-> NoRows,
                 samples |-> NoSamples]

\* (c0 | c1 | ... | c7).eq(zero).all(): every coefficient of the block is zero, c0
\* included; tmp = [c0 << PASS1_BITS; 8]
IdctShortcut ==
    /\ tr.stage = "call"
    /\ \A x \in 0..7 : DcRow(tr.d)[x] = 0
    /\ tr' = [tr EXCEPT !.stage = "pass1", !.branch = "shortcut",
                        !.tmp = [r \in 0..7 |-> [x \in 0..7 |-> ShortcutLane(DcRow(tr.d)[x])]]]
    /\ UNCHANGED <<dvars, k, zidx, bres, coef, ext, skip, up>>

\* the else branch: the first pass over the eight lanes
IdctColumns ==
    /\ tr.stage = "call"
    /\ \E x \in 0..7 : DcRow(tr.d)[x] # 0
    /\ tr' = [tr EXCEPT !.stage = "pass1", !.branch = "general",
                        !.tmp = [r \in 0..7 |-> [x \in 0..7 |-> ColumnLane(DcRow(tr.d)[x])]]]
    /\ UNCHANGED <<dvars, k, zidx, bres, coef, ext, skip, up>>

\* transpose, the second pass over the eight lanes, transpose_bytes and the stores:
\* samples[r * 8 + j] is lane r of a_j
IdctRows ==
    /\ tr.stage = "pass1"
    /\ tr' = [tr EXCEPT !.stage = "done",
                        !.samples = [n \in 0..63 |-> RowLane(tr.tmp[n \div 8][0])]]
    /\ UNCHANGED <<dvars, k, zidx, bres, coef, ext, skip, up>>

NextIdct == IdctShortcut \/ IdctColumns \/ IdctRows

SpecIdct == InitIdct /\ [][NextIdct]_vars

---------------------------------------------------------------------------
(* Properties *)

\* C1: the decoder state never moves backwards in the order
\* Start < HaveSOI < HaveFirstFrame < HaveFirstScan < End, across any markers
\* processed by read_metadata and any public calls
C1_StateMonotonic ==
    [][StateRank(dec'.state) >= StateRank(dec.state)]_vars

\* C2: decode_mcu_row, decode_mcu and decode_block run only while the state is
\* HaveFirstScan, also in calls made after an earlier call returned an error
\* part-way through read_metadata
C2_DecodingOnlyInFirstScan ==
    pc \in {"mcu", "mcuend"} => dec.state = "HaveFirstScan"

\* C3: the restart markers read_restart verifies are RST0, RST1, ..., RST7, RST0,
\* ... in this order, the expected marker is the one after the last verified, and
\* when the marker found differs from the expected one read_restart returns a
\* FormatError with no predictor reset and no advance of the expected marker
C3_RestartOrder ==
    /\ [](\A i \in 1..Len(rstlog) : rstlog[i] = RST0 + ((i - 1) % 8))
    /\ [](dec.expected_rst = RST0 + (Len(rstlog) % 8))
    /\ [][(pc = "mcuend" /\ rst' # 0 /\ rst' # dec.expected_rst) =>
             /\ result' = "FormatError"
             /\ pc' = "idle"
             /\ rstlog' = rstlog
             /\ dec'.expected_rst = dec.expected_rst
             /\ dec'.components = dec.components
             /\ dec'.h.bits = dec.h.bits
             /\ dec'.h.num_bits = dec.h.num_bits
             /\ dec'.h.end = dec.h.end]_vars

\* nine markers were verified, the ninth being RST0 again, and the tenth marker
\* found was not the expected RST1
C3_Witness ==
    /\ Len(rstlog) = 9
    /\ rstlog[9] = RST0
    /\ result = "FormatError"
    /\ rst \in RST0..RST7
    /\ rst # RST0 + 1

\* the predictor of component id as the decoder holds it
Pred(d, id) == IF id \in DOMAIN d.components THEN d.components[id].dc_pred ELSE 0

\* this step of read_restart found the expected marker
VerifiedRestart == pc = "mcuend" /\ rst' = dec.expected_rst

\* C4: a component's dc_pred is 0 when the component is created; a verified
\* restart marker sets every dc_pred to 0 and clears bits, num_bits, end and the
\* cached marker of the HuffDecoder; at any other step a dc_pred changes only
\* through a decoded block of that component, whose running predictor grows by
\* exactly the block's sign-extended DC difference
C4_DcPredictor ==
    [][/\ \A id \in DOMAIN dec'.components :
             Pred(dec', id) # Pred(dec, id) =>
                 \/ VerifiedRestart
                 \/ pc = "mcu" /\ id = dec.scan_components[ci]
       /\ VerifiedRestart =>
             /\ \A id \in DOMAIN dec'.components : Pred(dec', id) = 0
             /\ dec'.h = HuffDecoderNew
       /\ \A b \in BlockInputs :
             (BlockStep(b) /\ pc' \in {"mcu", "mcuend"}) =>
                 LET id == dec.scan_components[ci]
                     before == IF bi = 0 THEN Pred(dec, id) ELSE c.dc_pred
                     after == IF c' = NoC THEN Pred(dec', id) ELSE c'.dc_pred
                 IN after = before + Extend(b.v, b.t)]_vars

\* a marker was verified and a block decoded after it has moved a predictor
C4_Witness ==
    /\ rstlog # << >>
    /\ \E id \in DOMAIN dec.components : dec.components[id].dc_pred # 0

\* the MCUs of the image, w * h as read_restart counts them
Mcus(d) == ((d.width + 7) \div (d.hmax * 8)) * ((d.height + 7) \div (d.vmax * 8))

\* every row of a single-component image of 4 MCUs with restart interval 2 was
\* read and no call failed
C5_Case ==
    /\ pc = "idle"
    /\ fails = 0
    /\ dec.state = "HaveFirstScan"
    /\ dec.num_components = 1
    /\ dec.interval = 2
    /\ dec.hmax > 0
    /\ dec.vmax > 0
    /\ Mcus(dec) = 4
    /\ dec.decoded_rows >= dec.height

\* C5 as amended: with restart interval 2 and a single-component image of 4 MCUs,
\* a full decode reads and verifies exactly one restart marker, RST0
C5_OneRestart == C5_Case => rstlog = << RST0 >>

\* C5 as stated: such a decode reads and verifies RST0 and then RST1
C5_TwoRestarts == C5_Case => rstlog = << RST0, RST0 + 1 >>

C5_Witness == C5_Case /\ rstlog = << RST0 >>

\* C6: the zig-zag index a coefficient is placed with is in 1..63, and a run or
\* 16-position skips that lead past position 63 end the block with a FormatError
C6_ZigZagIndexInBlock ==
    /\ zidx \in 0..63
    /\ bres # "Panic"
    /\ k > 64 => bres = "FormatError"

\* C7: every component's tq, dc_table and ac_table are in 0..3
C7_SelectorsInRange ==
    \A id \in DOMAIN dec.components :
        /\ dec.components[id].tq \in 0..3
        /\ dec.components[id].dc_table \in 0..3
        /\ dec.components[id].ac_table \in 0..3

\* C8: once a frame header has been accepted every component's h and v, and hmax
\* and vmax, are in 1..4
C8_SamplingInRange ==
    dec.state \in {"HaveFirstFrame", "HaveFirstScan"} =>
        /\ \A id \in DOMAIN dec.components :
              /\ dec.components[id].h \in 1..4
              /\ dec.components[id].v \in 1..4
        /\ dec.hmax \in 1..4
        /\ dec.vmax \in 1..4

\* C9: in HaveFirstScan every scan component was declared by a frame header and
\* the DC and AC tables it selects were populated by a DHT segment
C9_ScanTablesPopulated ==
    dec.state = "HaveFirstScan" =>
        \A i \in 1..Len(dec.scan_components) :
            /\ dec.scan_components[i] \in DOMAIN dec.components
            /\ LET comp == dec.components[dec.scan_components[i]]
               IN /\ comp.dc_table \in DOMAIN dec.dctables
                  /\ comp.ac_table \in DOMAIN dec.actables
                  /\ dec.dctables[comp.dc_table] = "derived"
                  /\ dec.actables[comp.ac_table] = "derived"

\* a SOF0 frame header of zero width or height
ZeroSized(f) == f.width = 0 \/ f.height = 0

\* C10 as amended: a SOF0 frame header of 8-bit samples whose width or height is
\* zero is rejected with a DimensionError and leaves the state as it was
C10_ZeroSizeRejected ==
    [][\A f \in FrameInputs :
          (f.precision = 8 /\ ZeroSized(f) /\ MarkerSOF0(f)) =>
              /\ result' = "DimensionError"
              /\ dec'.state = dec.state]_vars

\* C10 as stated: such a frame header is rejected with a FormatError and the state
\* does not advance to HaveFirstFrame
C10_ZeroSizeFormatError ==
    [][\A f \in FrameInputs :
          (ZeroSized(f) /\ MarkerSOF0(f)) =>
              /\ result' = "FormatError"
              /\ dec.state # "HaveFirstFrame" => dec'.state # "HaveFirstFrame"]_vars

C10_Witness ==
    /\ result = "DimensionError"
    /\ dec.width = 0 \/ dec.height = 0
    /\ dec.state # "HaveFirstFrame"

\* C16: for every t in 0..16 and v in [0, 2^t), extend(v, t) is v - 2^t + 1 when
\* v < 2^(t-1) and v otherwise; extend(0, 0) = 0, extend(0, 4) = -15,
\* extend(8, 4) = 8 and extend(15, 4) = 15
C16_Extend ==
    bres = "Ok" =>
        /\ ext.r = IF ext.t > 0 /\ ext.v < Pow2(ext.t - 1)
                   THEN ext.v - Pow2(ext.t) + 1
                   ELSE ext.v
        /\ (ext.v = 0 /\ ext.t = 0) => ext.r = 0
        /\ (ext.v = 0 /\ ext.t = 4) => ext.r = 0 - 15
        /\ (ext.v = 8 /\ ext.t = 4) => ext.r = 8
        /\ (ext.v = 15 /\ ext.t = 4) => ext.r = 15

C16_Witness == bres = "Ok" /\ ext = [v |-> 0, t |-> 4, r |-> 0 - 15]

\* C19: in the AC loop at index k, (0,0) ends the block and stores nothing; (15,0)
\* advances k by 16 and stores nothing; a symbol of size > 0 whose index k + run
\* is in the block stores at position UNZIGZAG[k + run] the exact product of the
\* sign-extended magnitude and the quantization entry, and goes on at k + run + 1
C19_AcSymbols ==
    [][\A rs \in AcSymbols : \A v \in ReceiveBits(rs % 16) : \A q \in QEntries :
          \A checked \in BOOLEAN :
             LET ssss == rs % 16
                 rrrr == rs \div 16
             IN (AcLoop(rs, v, q, checked) /\ k + rrrr <= 63) =>
                   CASE ssss = 0 /\ rrrr = 0 ->
                           bres' = "Ok" /\ coef' = coef /\ zidx' = zidx
                     [] ssss = 0 /\ rrrr = 15 ->
                           k' = k + 16 /\ coef' = coef /\ zidx' = zidx
                     [] ssss > 0 ->
                           /\ bres' # "Panic"
                           /\ zidx' = k + rrrr
                           /\ coef' = [pos |-> UNZIGZAG[k + rrrr + 1],
                                       val |-> Extend(v, ssss) * q]
                           /\ k' = k + rrrr + 1
                     [] OTHER -> TRUE]_vars

\* C11: the padded width of an accepted frame header is the width rounded up to
\* the next multiple of 8 * hmax
C11_PaddedWidth ==
    (pc = "meta" /\ dec.state = "HaveFirstFrame" /\ dec.hmax \in 1..4) =>
        dec.padded_width = 8 * dec.hmax * CeilDiv(dec.width, 8 * dec.hmax)

\* C13: read_metadata is begun by the first public call and by no later one
C13_ParsedOnce ==
    [][(pc = "idle" /\ pc' = "meta") => result = "none"]_vars

\* C14: after read_metadata has returned the FormatError of a DQT segment with a
\* table of 16-bit precision or of an id above 3, the state never is HaveFirstScan
\* and decode_mcu never runs
C14_NoDecodingAfterBadDqt ==
    /\ dec.state # "HaveFirstScan"
    /\ pc \notin {"mcu", "mcuend"}

\* C15: a SOF2 or DNL marker met by read_metadata returns an UnsupportedError at
\* once, the decoder unchanged, the state not yet HaveFirstScan and no MCU decoded
C15_UnsupportedMarkers ==
    [][(MarkerSOF2 \/ MarkerDNL) =>
          /\ result' = "UnsupportedError"
          /\ pc' = "idle"
          /\ dec' = dec
          /\ dec.state # "HaveFirstScan"
          /\ dec.mcucount = 0
          /\ dec.decoded_rows = 0]_vars

C15_Witness ==
    /\ result = "UnsupportedError"
    /\ pc = "idle"
    /\ dec.state = "HaveFirstFrame"
    /\ dec.height = 8

\* C18: HaveFirstFrame is entered from HaveSOI only and HaveFirstScan from
\* HaveFirstFrame only
C18_StatesInOrder ==
    [][/\ (dec'.state = "HaveFirstFrame" /\ dec.state # "HaveFirstFrame") =>
             dec.state = "HaveSOI"
       /\ (dec'.state = "HaveFirstScan" /\ dec.state # "HaveFirstScan") =>
             dec.state = "HaveFirstFrame"]_vars

\* the rows of an MCU row
McuRowHeight(d) == 8 * d.vmax

\* the iterations of the loop of decode_mcu_row
McusPerRow(d) == CeilDiv(RowStop(d), RowStep(d))

\* C12: read_scanline returns 1, 2, 3, ...: a call that succeeds adds one to
\* decoded_rows and copies row row_count = (k - 1) mod (8 * vmax) of the MCU row
\* decoded last, which without failures is the MCU row of index
\* floor((k - 1) / (8 * vmax)); decode_mcu_row runs in the calls that begin with
\* decoded_rows a multiple of 8 * vmax and in no other
C12_ConsecutiveRows ==
    /\ [](dec.row_count = dec.decoded_rows % McuRowHeight(dec))
    /\ []((pc = "idle" /\ fails = 0) =>
             dec.mcucount = CeilDiv(dec.decoded_rows, McuRowHeight(dec)) * McusPerRow(dec))
    /\ [][/\ (pc = "idle" /\ pc' \in {"mcu", "mcuend"}) =>
                dec.decoded_rows % McuRowHeight(dec) = 0
          /\ dec'.decoded_rows # dec.decoded_rows =>
                /\ dec'.decoded_rows = dec.decoded_rows + 1
                /\ result' = "Ok"
                /\ pc \in {"idle", "mcuend"}
                /\ pc = "mcuend" <=> dec.decoded_rows % McuRowHeight(dec) = 0
          /\ (pc = "idle" /\ pc' = "idle" /\ result' = "Ok") =>
                dec'.decoded_rows = dec.decoded_rows + 1]_vars

\* the 17th row of an image with vmax = 2 was returned: the second MCU row was decoded
C12_Witness ==
    /\ dec.decoded_rows = 17
    /\ dec.vmax = 2
    /\ dec.row_count = 1
    /\ fails = 0

\* the MCUs of the image
ImageMcus(d) == CeilDiv(d.width, 8 * d.hmax) * CeilDiv(d.height, 8 * d.vmax)

\* C17: after an MCU a restart marker is read if and only if the interval is not 0,
\* the MCU counter is a multiple of it and below the MCUs of the image,
\* ceil(width / (8 * hmax)) * ceil(height / (8 * vmax))
C17_RestartCondition ==
    [][pc = "mcuend" =>
          LET n == dec.mcucount + 1
          IN (rst' # 0 \/ result' \in {"IoError", "FormatError"}) <=>
                (dec.interval # 0 /\ n % dec.interval = 0 /\ n < ImageMcus(dec))]_vars

\* the blocks of an MCU: h * v of every scan component
RECURSIVE ScanBlockCount(_, _)
ScanBlockCount(d, n) ==
    IF n = 0 THEN 0
    ELSE LET comp == d.components[d.scan_components[n]]
         IN ScanBlockCount(d, n - 1) + comp.h * comp.v

\* C20 as amended: decode_mcu decodes h * v blocks of every scan component (one
\* block in a frame of one component) into the slots 0, 1, 2, ... of the MCU buffer
\* and then adds exactly 1 to mcucount before the restart check; a call that fails
\* in a block leaves mcucount, one that fails in the restart check has added to it
C20_McuBlocks ==
    [][/\ \A b \in BlockInputs : BlockStep(b) =>
             /\ pc' = "mcu" => blk' = blk + 1
             /\ pc' = "mcuend" =>
                   /\ blk + 1 = ScanBlockCount(dec, Len(dec.scan_components))
                   /\ dec.num_components = 1 => blk = 0
       /\ (pc \notin {"mcu", "mcuend"} /\ pc' \in {"mcu", "mcuend"}) => blk' = 0
       /\ pc = "mcuend" => dec'.mcucount = dec.mcucount + 1
       /\ pc # "mcuend" => dec'.mcucount = dec.mcucount]_vars

\* C20 as stated, its last part: a call of decode_mcu that fails leaves mcucount
C20_FailureKeepsCount ==
    [][(pc \in {"mcu", "mcuend"} /\ result' \in {"IoError", "FormatError"}) =>
          dec'.mcucount = dec.mcucount]_vars

\* an MCU of six blocks was decoded and counted, and the restart check failed
C20_Witness ==
    /\ dec.mcucount >= 1
    /\ result = "FormatError"
    /\ rst # 0
    /\ pc = "idle"

\* C22: an APPn or COM segment of declared length L never makes read_metadata
\* fail, and when the stream holds the payload the arm consumes exactly L - 2
\* bytes of it, for every L (no wrap-around for L < 2)
C22_PayloadSkipped ==
    skip.res # "none" =>
        /\ skip.res = "Ok"
        /\ skip.avail >= skip.len - 2 => skip.consumed = skip.len - 2

\* C21: in an MCU of three components with luma h x v and chroma 1 x 1 blocks,
\* h * v > 1, the pixel at MCU-local position (x, y) is stored from the luma sample
\* (x, y) and from the Cb and Cr samples at (floor(x / hmax), floor(y / vmax)) of
\* the chroma block
C21_NearestNeighbour ==
    up.stage \in {"colour", "done"} /\ dec.num_components = 3 /\ dec.hmax * dec.vmax > 1 =>
        \A s \in up.stores :
            /\ s.ysrc = ((s.py \div 8) * dec.hmax + (s.px \div 8)) * 64
                            + (s.py % 8) * 8 + (s.px % 8)
            /\ s.csrc = (s.py \div dec.vmax) * 8 + (s.px \div dec.hmax)

\* C24: every byte upsample_mcu stores for the MCU at offset x0 lies inside the
\* MCU-row buffer, in a row 0 .. 8 * vmax - 1 and in a pixel column
\* x0 / bpp .. x0 / bpp + 8 * hmax - 1, so no pixel of another MCU is overwritten
C24_OwnColumnBand ==
    up.stage # "none" =>
        /\ up.stage # "Panic"
        /\ \A s \in up.stores : \A b \in s.off..(s.off + dec.num_components - 1) :
               LET stride == dec.padded_width * dec.num_components
                   col == (b % stride) \div dec.num_components
                   first == up.xoffset \div dec.num_components
               IN /\ b < dec.mcu_row_len
                  /\ b \div stride < 8 * dec.vmax
                  /\ col >= first
                  /\ col < first + 8 * dec.hmax

\* d / 8 rounded to the nearest integer, halves upwards
RoundEighth(d) == (d + 4) \div 8

Clamp(x, lo, hi) == IF x < lo THEN lo ELSE IF x > hi THEN hi ELSE x

\* C23: for a block with zero AC coefficients and DC coefficient d, every one of
\* the 64 samples idct writes equals clamp(round(d / 8) + 128, 0, 255), and tmp
\* after the shortcut branch is what the general branch computes for that block
C23_UniformDcBlock ==
    /\ tr.stage = "done" =>
           \A n \in 0..63 : tr.samples[n] = Clamp(RoundEighth(tr.d) + 128, 0, 255)
    /\ tr.stage = "pass1" /\ tr.branch = "shortcut" =>
           tr.tmp = [r \in 0..7 |-> [x \in 0..7 |-> ColumnLane(DcRow(tr.d)[x])]]
====
